---- MODULE Spec2Model ----
(***************************************************************************)
(* Model of the Neewer GL1 Pro light entity                                *)
(* (custom_components/neewer_gl1_pro/light.py, const.py).                  *)
(*                                                                         *)
(* One record per call of async_turn_on / async_turn_off holds the locals  *)
(* of _send_command (result, status_event, the client) and the position of *)
(* the coroutine.  A step of the model is the code between two awaits.     *)
(* Fields discCalls, connects, raises, timedOut, firstValid and lastData   *)
(* are history fields: they record what happened and guard nothing.        *)
(***************************************************************************)
EXTENDS Integers, Sequences, FiniteSets, TLC

VARIABLES is_on, call, probe, flow, entries

vars == <<is_on, call, probe, flow, entries>>

\* ---------------------------------------------------------------- bounds
NumCalls == 2
MaxLen == 5

Calls == 1..NumCalls

\* ------------------------------------------------------------- const.py
STATUS_TAG == 2
STATUS_ON == 1
STATUS_OFF == 2

POWER_ON_COMMAND == <<120, 129, 1, 1, 251>>
POWER_OFF_COMMAND == <<120, 129, 1, 2, 252>>

\* Optional[bool]: <<>> is None, <<b>> is the boolean b.
None == <<>>

Some(b) == <<b>>

\* ------------------------------------------------------- notifications
\* data[i] of a Python bytearray (0-based).
Byte(data, i) == data[i + 1]

\* Byte values the decoder is exercised on: STATUS_ON, STATUS_OFF/STATUS_TAG,
\* an unrecognised state, the sync byte and the power tag.
ByteVals == {1, 2, 3, 120, 129}

RECURSIVE SeqsUpTo(_)
SeqsUpTo(n) ==
    IF n = 0 THEN {<<>>}
    ELSE LET S == SeqsUpTo(n - 1)
         IN  S \cup {Append(s, b) : s \in {t \in S : Len(t) = n - 1}, b \in ByteVals}

Frames == SeqsUpTo(MaxLen)

\* Notifications a device (or another characteristic user) delivers during
\* an exchange: status on, status off, status with an unknown state byte,
\* a frame with another tag, a short frame, an empty one.
NotifFrames ==
    { <<120, 2, 1, 1, 124>>,
      <<120, 2, 1, 2, 125>>,
      <<120, 2, 1, 3, 126>>,
      <<120, 129, 1, 1, 251>>,
      <<120, 2, 1>>,
      <<>> }

\* on_notify applied to the closure state st = [result, event].
on_notifyM(st, data) ==
    IF Len(data) >= 4 /\ Byte(data, 1) = STATUS_TAG
    THEN [result |-> IF Byte(data, 2) = STATUS_ON THEN Some(TRUE)
                     ELSE IF Byte(data, 2) = STATUS_OFF THEN Some(FALSE)
                     ELSE st.result,
          event  |-> TRUE]
    ELSE st

on_notify(st, data) ==
    IF Len(data) >= 4 /\ Byte(data, 1) = STATUS_TAG
    THEN [result |-> IF Byte(data, 3) = STATUS_ON THEN Some(TRUE)
                     ELSE IF Byte(data, 3) = STATUS_OFF THEN Some(FALSE)
                     ELSE st.result,
          event  |-> TRUE]
    ELSE st

\* result = [None], status_event = asyncio.Event()
FreshWait == [result |-> None, event |-> FALSE]

\* ------------------------------------------------------------ the calls
Commands == {"on", "off"}

\* Outcome of an awaited transport operation: it returns, raises BleakError,
\* or raises an exception that is not a BleakError (e.g. TimeoutError).
Outcomes == {"ok", "bleak", "other"}

\* The frame an entity method hands to _send_command.
FrameM(command) == POWER_ON_COMMAND

Frame(command) == IF command = "on" THEN POWER_ON_COMMAND ELSE POWER_OFF_COMMAND

IdleCall ==
    [ pc         |-> "idle",
      command    |-> "none",
      result     |-> None,
      event      |-> FALSE,
      status     |-> None,
      exc        |-> "none",
      connected  |-> FALSE,
      subscribed |-> FALSE,
      strategy   |-> "none",
      lookup     |-> "none",
      attempts   |-> <<>>,
      ops        |-> <<>>,
      before     |-> FALSE,
      seq        |-> 0,
      endSeq     |-> 0,
      written    |-> <<>>,
      connects   |-> 0,
      discCalls  |-> 0,
      raises     |-> {},
      timedOut   |-> FALSE,
      firstValid |-> None,
      lastData   |-> <<>> ]

\* The state assumed when no confirmation came back.
Assumed(command) == command = "on"

\* self._attr_is_on = status if status is not None else True / False
AdoptM(status, command) == Assumed(command)

Adopt(status, command) == IF status # None THEN status[1] ELSE Assumed(command)

\* except BleakError
CaughtM(kind) == FALSE

CaughtAll(kind) == TRUE

Caught(kind) == kind = "bleak"

\* The awaited steps that lie inside try ... finally: await client.disconnect()
InFinallyNoWrite(step) == step \in {"start_notify", "stop_notify"}

InFinallyNoSubscribe(step) == step \in {"write", "stop_notify"}

InFinallyAll(step) == TRUE

InFinally(step) == step \in {"start_notify", "write", "stop_notify"}

\* Control leaves the outer try with exception `final` ("none": normally).
\* A caught or absent exception reaches `return result[0]`, and the caller
\* stores the state without a further await; any other exception propagates
\* out of _send_command and of async_turn_on / async_turn_off.
Leave(r, final) ==
    LET r1 == [r EXCEPT !.endSeq =
                 1 + Cardinality({d \in Calls : call[d].pc \in {"done", "raised"}})]
    IN  IF final = "none" \/ Caught(final)
        THEN [r1 EXCEPT !.exc = "none", !.status = r.result, !.pc = "done"]
        ELSE [r1 EXCEPT !.exc = final, !.pc = "raised"]

\* `step` raised an exception of kind `kind`.
Raised(r, step, kind) ==
    LET r1 == [r EXCEPT !.raises = @ \cup {<<step, kind>>}]
    IN  IF InFinally(step)
        THEN [r1 EXCEPT !.exc = kind, !.pc = "disconnect"]
        ELSE Leave(r1, kind)

\* The position after `step` returned normally: the order of the awaits of
\* _send_command.
AfterWriteFirst(step) ==
    CASE step = "connect"      -> "write"
      [] step = "write"        -> "start_notify"
      [] step = "start_notify" -> "wait"
      [] step = "wait"         -> "stop_notify"
      [] step = "stop_notify"  -> "disconnect"

AfterRetryWait(step) ==
    CASE step = "connect"      -> "start_notify"
      [] step = "start_notify" -> "write"
      [] step = "write"        -> "wait"
      [] step = "wait"         -> "wait"
      [] step = "stop_notify"  -> "disconnect"

After(step) ==
    CASE step = "connect"      -> "start_notify"
      [] step = "start_notify" -> "write"
      [] step = "write"        -> "wait"
      [] step = "wait"         -> "stop_notify"
      [] step = "stop_notify"  -> "disconnect"

\* The connection strategies _connect tries, in order, given the result of
\* async_ble_device_from_address.
StrategiesFallback(cached) == IF cached THEN <<"cached", "direct">> ELSE <<"direct">>

Strategies(cached) == IF cached THEN <<"cached">> ELSE <<"direct">>

\* The transport operation `op` is recorded in the log of the call.
Logged(r, op) == [r EXCEPT !.ops = Append(@, op)]

\* Call c moves to record r; reaching "done" writes the state.
StepIssueOrder(c, r) ==
    /\ call' = [call EXCEPT ![c] = r]
    /\ is_on' = IF /\ r.pc = "done"
                   /\ \A d \in Calls \ {c} : ~(call[d].pc = "done" /\ call[d].seq > r.seq)
                THEN Adopt(r.status, r.command)
                ELSE is_on
    /\ UNCHANGED <<probe, flow, entries>>

StepOptimistic(c, r) ==
    /\ call' = [call EXCEPT ![c] = r]
    /\ is_on' = IF r.pc = "done" THEN Adopt(r.status, r.command)
                ELSE IF r.pc = "wait" THEN Assumed(r.command)
                ELSE is_on
    /\ UNCHANGED <<probe, flow, entries>>

Step(c, r) ==
    /\ call' = [call EXCEPT ![c] = r]
    /\ is_on' = IF r.pc = "done" THEN Adopt(r.status, r.command) ELSE is_on
    /\ UNCHANGED <<probe, flow, entries>>

InProgress(c) == call[c].pc \notin {"idle", "done", "raised"}

NoCallInProgress == \A c \in Calls : ~InProgress(c)

\* async_turn_on / async_turn_off is called: runs up to the first await.
BeginLocked(c, command) ==
    /\ call[c].pc = "idle"
    /\ \A d \in Calls \ {c} : ~InProgress(d)
    /\ Step(c, [IdleCall EXCEPT
                   !.pc = "connect",
                   !.command = command,
                   !.before = is_on,
                   !.seq = 1 + Cardinality({d \in Calls : InProgress(d)})])

Begin(c, command) ==
    /\ call[c].pc = "idle"
    /\ Step(c, [IdleCall EXCEPT
                   !.pc = "connect",
                   !.command = command,
                   !.before = is_on,
                   !.seq = 1 + Cardinality({d \in Calls : InProgress(d)})])

\* Calls are issued serially: the caller awaits a call before the next one.
Start(c) ==
    /\ \A d \in Calls \ {c} : call[d].pc = "idle"
    /\ \E command \in Commands : Begin(c, command)

\* _connect: cached handle if the host has one, else directly by address.
Connect(c) ==
    /\ call[c].pc = "connect"
    /\ \E cached \in BOOLEAN, o \in Outcomes :
         \E k \in 1..Len(Strategies(cached)) :
            /\ (o # "ok") => k = Len(Strategies(cached))
            /\ LET r1 == Logged([call[c] EXCEPT
                                   !.connects = @ + k,
                                   !.lookup = IF cached THEN "hit" ELSE "miss",
                                   !.attempts = SubSeq(Strategies(cached), 1, k),
                                   !.strategy = Strategies(cached)[k]], "connect")
               IN  IF o = "ok"
                   THEN Step(c, [r1 EXCEPT !.connected = TRUE, !.pc = After("connect")])
                   ELSE Step(c, Raised(r1, "connect", o))

\* await client.start_notify(NOTIFY_CHARACTERISTIC_UUID, on_notify)
StartNotify(c) ==
    /\ call[c].pc = "start_notify"
    /\ \E o \in Outcomes :
         IF o = "ok"
         THEN Step(c, [Logged(call[c], "start_notify") EXCEPT
                         !.subscribed = TRUE, !.pc = After("start_notify")])
         ELSE Step(c, Raised(Logged(call[c], "start_notify"), "start_notify", o))

\* await client.write_gatt_char(WRITE_CHARACTERISTIC_UUID, command)
Write(c) ==
    /\ call[c].pc = "write"
    /\ \E o \in Outcomes :
         IF o = "ok"
         THEN Step(c, [Logged(call[c], "write") EXCEPT
                         !.written = Frame(call[c].command), !.pc = After("write")])
         ELSE Step(c, Raised(Logged(call[c], "write"), "write", o))

\* wait_for(status_event.wait(), NOTIFY_TIMEOUT) returns: the event is set.
WaitDone(c) ==
    /\ call[c].pc = "wait"
    /\ call[c].event
    /\ Step(c, [Logged(call[c], "wait") EXCEPT !.pc = After("wait")])

\* The timer fires before the event is set; TimeoutError is caught and logged.
Timeout(c) ==
    /\ call[c].pc = "wait"
    /\ ~call[c].event
    /\ Step(c, [Logged(call[c], "wait") EXCEPT !.timedOut = TRUE, !.pc = After("wait")])

\* await client.stop_notify(NOTIFY_CHARACTERISTIC_UUID)
StopNotify(c) ==
    /\ call[c].pc = "stop_notify"
    /\ \E o \in Outcomes :
         IF o = "ok"
         THEN Step(c, [Logged(call[c], "stop_notify") EXCEPT
                         !.subscribed = FALSE, !.pc = After("stop_notify")])
         ELSE Step(c, Raised(Logged(call[c], "stop_notify"), "stop_notify", o))

\* finally: await client.disconnect().  An exception of disconnect replaces
\* the pending one.  When disconnect raises, the link is in whatever state
\* the BLE stack left it.
Disconnect(c) ==
    /\ call[c].pc = "disconnect"
    /\ \E o \in Outcomes, still \in BOOLEAN :
         /\ (o = "ok") => ~still
         /\ LET r1 == [Logged(call[c], "disconnect") EXCEPT
                         !.discCalls = @ + 1,
                         !.subscribed = FALSE,
                         !.connected = @ /\ still,
                         !.raises = IF o = "ok" THEN @ ELSE @ \cup {<<"disconnect", o>>}]
            IN  Step(c, Leave(r1, IF o = "ok" THEN call[c].exc ELSE o))

\* The transport invokes the callback while the subscription is active.
Notify(c, data) ==
    /\ call[c].subscribed
    /\ call[c].pc \in {"write", "wait", "stop_notify", "disconnect"}
    /\ LET st == on_notify([result |-> call[c].result, event |-> call[c].event], data)
           dec == on_notify(FreshWait, data).result
       IN  Step(c, [call[c] EXCEPT
                      !.result = st.result,
                      !.event = st.event,
                      !.lastData = data,
                      !.firstValid = IF @ = None THEN dec ELSE @])

Deliver(c) == \E data \in NotifFrames : Notify(c, data)

\* The call is over; its locals are dropped.
Return(c) ==
    /\ call[c].pc \in {"done", "raised"}
    /\ Step(c, IdleCall)

IdleProbe == [data |-> <<>>, applied |-> FALSE, result |-> None, event |-> FALSE]

\* NeewerGL1ProConfigFlow.__init__; step "none": no flow is open.
IdleFlow ==
    [ step               |-> "none",
      discovery_info     |-> <<>>,
      discovered_devices |-> {},
      unique_id          |-> <<>>,
      errors             |-> "none" ]

Init ==
    /\ is_on = FALSE
    /\ call = [c \in Calls |-> IdleCall]
    /\ probe = IdleProbe
    /\ flow = IdleFlow
    /\ entries = {}

Next ==
    \E c \in Calls :
        \/ Start(c)
        \/ Connect(c)
        \/ StartNotify(c)
        \/ Write(c)
        \/ Deliver(c)
        \/ WaitDone(c)
        \/ Timeout(c)
        \/ StopNotify(c)
        \/ Disconnect(c)
        \/ Return(c)

Spec == Init /\ [][Next]_vars

\* ------------------------------------------------- the decoder on its own
\* One notification, drawn from Frames, is delivered to a fresh callback.
InitDecode ==
    /\ is_on = FALSE
    /\ call = [c \in Calls |-> IdleCall]
    /\ probe \in {[IdleProbe EXCEPT !.data = d] : d \in Frames}
    /\ flow = IdleFlow
    /\ entries = {}

Decode ==
    /\ ~probe.applied
    /\ LET st == on_notify(FreshWait, probe.data)
       IN  probe' = [probe EXCEPT !.applied = TRUE, !.result = st.result, !.event = st.event]
    /\ UNCHANGED <<is_on, call, flow, entries>>

NextDecode == Decode

SpecDecode == InitDecode /\ [][NextDecode]_vars

TypeOK ==
    /\ is_on \in BOOLEAN
    /\ \A c \in Calls :
         /\ call[c].pc \in {"idle", "connect", "start_notify", "write", "wait",
                            "stop_notify", "disconnect", "done", "raised"}
         /\ call[c].result \in {None, Some(TRUE), Some(FALSE)}
         /\ call[c].status \in {None, Some(TRUE), Some(FALSE)}
         /\ call[c].discCalls \in 0..1
         /\ call[c].connects \in 0..1

\* ------------------------------------------------------------ vocabulary
Finished(c) == call[c].pc \in {"done", "raised"}

RaisedAt(c, step, kind) == <<step, kind>> \in call[c].raises

RaisedKind(c, kind) == \E p \in call[c].raises : p[2] = kind

\* The connect step was made and returned a client.
ConnectOK(c) ==
    /\ call[c].connects = 1
    /\ \A k \in {"bleak", "other"} : ~RaisedAt(c, "connect", k)

\* A notification that is not a well-formed status frame.
Malformed(data) ==
    ~(Len(data) >= 4 /\ Byte(data, 1) = 2 /\ Byte(data, 3) \in {1, 2})

\* ---------------------------------------------------------------- claims

\* C1: when async_turn_on / async_turn_off completes, is_on is the boolean
\* returned by _send_command if there is one, and otherwise the assumed state
\* of the command (True for turn_on, False for turn_off); the value returned
\* is the recorded result.
C1_StateIsConfirmedOrAssumed ==
    \A c \in Calls :
        call[c].pc = "done" =>
            /\ call[c].status = call[c].result
            /\ is_on = (IF call[c].status = None
                        THEN call[c].command = "on"
                        ELSE call[c].status = Some(TRUE))

\* An OFF confirmation received during turn_on left is_on False.
C1_Witness ==
    \E c \in Calls :
        /\ call[c].pc = "done"
        /\ call[c].command = "on"
        /\ call[c].status = Some(FALSE)
        /\ is_on = FALSE

\* C2: a BleakError raised by any step never escapes the call: an exception
\* that leaves async_turn_on / async_turn_off is never a BleakError, a call in
\* which only BleakErrors were raised completes normally, and a turn_on whose
\* connect raised BleakError completes with is_on True.
C2_BleakErrorNeverEscapes ==
    \A c \in Calls :
        /\ call[c].pc = "raised" => call[c].exc = "other"
        /\ (Finished(c) /\ ~RaisedKind(c, "other")) => call[c].pc = "done"
        /\ (call[c].pc = "done" /\ RaisedAt(c, "connect", "bleak") /\ call[c].command = "on")
               => is_on

\* turn_on completed although connect raised BleakError.
C2_Witness ==
    \E c \in Calls :
        /\ call[c].pc = "done"
        /\ call[c].command = "on"
        /\ RaisedAt(c, "connect", "bleak")
        /\ is_on

\* C3: in an exchange whose connect succeeded, disconnect is invoked exactly
\* once before _send_command returns or raises, and not before the body of
\* the exchange is over.
C3_DisconnectExactlyOnce ==
    \A c \in Calls :
        /\ (Finished(c) /\ ConnectOK(c)) => call[c].discCalls = 1
        /\ call[c].pc \in {"start_notify", "write", "wait", "stop_notify", "disconnect"}
               => call[c].discCalls = 0
        /\ call[c].discCalls <= 1

\* The write failed and the exchange still disconnected once.
C3_Witness ==
    \E c \in Calls :
        /\ Finished(c)
        /\ ConnectOK(c)
        /\ \E k \in {"bleak", "other"} : RaisedAt(c, "write", k)
        /\ call[c].discCalls = 1

C5_TransportErrorMeansAssumed ==
    \A c \in Calls :
        (call[c].pc = "done" /\ RaisedKind(c, "bleak")) =>
            /\ call[c].status = None
            /\ is_on = Assumed(call[c].command)

\* C6 as stated: once the wait ended by timeout, the exchange yields no result
\* and the controller takes the assumed state of the command.
C6_TimeoutMeansAssumed ==
    \A c \in Calls :
        (call[c].pc = "done" /\ call[c].timedOut) =>
            /\ call[c].status = None
            /\ is_on = Assumed(call[c].command)

\* C7 as stated: delivering a malformed notification changes neither the
\* recorded result nor the event the bounded wait is waiting for.
C7_MalformedIgnored ==
    [][\A c \in Calls : \A data \in NotifFrames :
          (Malformed(data) /\ Notify(c, data)) =>
              /\ call'[c].result = call[c].result
              /\ call'[c].event = call[c].event]_vars

\* C8 as stated: the value returned by _send_command is the state of the first
\* valid status notification of the exchange.
C8_FirstDecodeWins ==
    \A c \in Calls :
        (call[c].pc = "done" /\ call[c].firstValid # None) =>
            call[c].status = call[c].firstValid

\* C9: each call makes one connect of its own, and while no command is in
\* progress no transport is still connected whose disconnect returned.
C9_NoTransportHeldBetweenCalls ==
    NoCallInProgress =>
        \A c \in Calls :
            /\ Finished(c) => call[c].connects = 1
            /\ call[c].pc = "idle" => call[c].connects = 0
            /\ call[c].connected =>
                   \E k \in {"bleak", "other"} : RaisedAt(c, "disconnect", k)

\* A call ended whose subscribe had raised, with the transport closed.
C9_Witness ==
    /\ NoCallInProgress
    /\ \E c \in Calls :
          /\ Finished(c)
          /\ ConnectOK(c)
          /\ \E k \in {"bleak", "other"} : RaisedAt(c, "start_notify", k)
          /\ call[c].discCalls = 1
          /\ ~call[c].connected

\* C10: the decoder yields a state iff the data has at least 4 bytes, byte 1
\* is 0x02 and byte 3 is 0x01 or 0x02; 0x01 gives True and 0x02 False, whatever
\* the bytes 0, 2, 4 and the following ones are.
C10_DecodeIffStatusFrame ==
    probe.applied =>
        LET d == probe.data
            valid == Len(d) >= 4 /\ d[2] = 2 /\ d[4] \in {1, 2}
        IN  /\ probe.result # None <=> valid
            /\ valid => probe.result = Some(d[4] = 1)

\* A frame with a wrong sync byte, a wrong length byte and a fifth byte that
\* is no checksum is decoded as off.
C10_Witness ==
    /\ probe.applied
    /\ Len(probe.data) = 5
    /\ probe.data[1] = 3
    /\ probe.data[3] = 129
    /\ probe.data[5] = 1
    /\ probe.result = Some(FALSE)

\* Sum of the bytes of a frame.
RECURSIVE SumSeq(_)
SumSeq(f) == IF f = <<>> THEN 0 ELSE f[1] + SumSeq(Tail(f))

\* The frame invariant of a one-byte-payload power command: sync 0x78, tag
\* 0x81, length = number of payload bytes, checksum = sum of the rest mod 256.
PowerFrameOK(f) ==
    /\ Len(f) = 5
    /\ f[1] = 120
    /\ f[2] = 129
    /\ f[3] = Len(f) - 4
    /\ f[Len(f)] = SumSeq(SubSeq(f, 1, Len(f) - 1)) % 256

\* C11: POWER_ON_COMMAND is 78 81 01 01 FB and POWER_OFF_COMMAND is
\* 78 81 01 02 FC, both satisfy the frame invariant, and the frame a call has
\* written is the power-on frame for turn_on and the power-off frame for
\* turn_off.
C11_FramesAndWrites ==
    /\ POWER_ON_COMMAND = <<120, 129, 1, 1, 251>>
    /\ POWER_OFF_COMMAND = <<120, 129, 1, 2, 252>>
    /\ PowerFrameOK(POWER_ON_COMMAND)
    /\ PowerFrameOK(POWER_OFF_COMMAND)
    /\ \A c \in Calls :
          /\ call[c].written # <<>> =>
                 /\ PowerFrameOK(call[c].written)
                 /\ call[c].written = (IF call[c].command = "on"
                                       THEN <<120, 129, 1, 1, 251>>
                                       ELSE <<120, 129, 1, 2, 252>>)
          /\ call[c].pc \in {"wait", "stop_notify"} => call[c].written # <<>>

\* A turn_off has written the power-off frame and is waiting.
C11_Witness ==
    \E c \in Calls :
        /\ call[c].pc = "wait"
        /\ call[c].command = "off"
        /\ call[c].written = <<120, 129, 1, 2, 252>>

\* ------------------------------------------------------- config_flow.py
\* An address is a Python str, modelled as a sequence of one-character strings.
ValidAddr == <<"A","A",":","B","B",":","C","C",":","D","D",":","E","E",":","F","F">>

\* What a user may type into the manual form.
ManualInputs ==
    { ValidAddr,
      <<" ","a","a",":","b","b",":","c","c",":","d","d",":","e","e",":","f","f"," ">>,
      <<"G","G",":","G","G",":","G","G",":","G","G",":","G","G",":","G","G">>,
      <<":",":",":",":",":","A","A","A","A","A","A","A","A","A","A","A","A">>,
      <<"A","A","A","A","A","A","A","A","A","A","A","A","A","A","A","A","A">>,
      <<"A","A",":","B","B">> }

\* info.address as the host Bluetooth stack reports it for two devices.  The
\* discovery steps take it as it is.
DeviceAddrs ==
    { ValidAddr,
      <<"1","1",":","2","2",":","3","3",":","4","4",":","5","5",":","6","6">> }

\* info.name: none, a Neewer name, another device's name.
Names == {"", "NEEWER-GL1 PRO", "LYWSD03MMC"}

Infos == [address : DeviceAddrs, name : Names]

\* info.name and info.name.startswith(LOCAL_NAME_PREFIX), on Names.
IsNeewerName(name) == name # "" /\ name = "NEEWER-GL1 PRO"

UpperChar(ch) ==
    CASE ch = "a" -> "A" [] ch = "b" -> "B" [] ch = "c" -> "C"
      [] ch = "d" -> "D" [] ch = "e" -> "E" [] ch = "f" -> "F"
      [] ch = "g" -> "G" [] OTHER -> ch

\* str.upper()
Upper(str) == [i \in 1..Len(str) |-> UpperChar(str[i])]

\* str.strip()
RECURSIVE Strip(_)
Strip(str) ==
    IF str = <<>> THEN str
    ELSE IF str[1] = " " THEN Strip(Tail(str))
    ELSE IF str[Len(str)] = " " THEN Strip(SubSeq(str, 1, Len(str) - 1))
    ELSE str

\* str.count(ch)
Count(str, ch) == Cardinality({i \in 1..Len(str) : str[i] = ch})

\* len(address) != 17 or address.count(":") != 5
InvalidAddress(address) == Len(address) # 17 \/ Count(address, ":") # 5

\* self._abort_if_unique_id_configured(): an entry has this unique id.
Configured(address) == address \in entries

\* async_set_unique_id + _abort_if_unique_id_configured + async_create_entry
CreateOrAbort(address) ==
    IF Configured(address)
    THEN /\ flow' = [flow EXCEPT !.step = "aborted", !.unique_id = address]
         /\ UNCHANGED entries
    ELSE /\ flow' = [flow EXCEPT !.step = "created", !.unique_id = address]
         /\ entries' = entries \cup {address}

\* async_step_bluetooth(discovery_info), then the confirm form is shown.
StepBluetooth ==
    /\ flow.step = "none"
    /\ \E info \in Infos :
         IF Configured(info.address)
         THEN flow' = [flow EXCEPT !.step = "aborted", !.unique_id = info.address]
         ELSE flow' = [flow EXCEPT !.step = "bluetooth_confirm",
                                   !.unique_id = info.address,
                                   !.discovery_info = info]
    /\ UNCHANGED <<is_on, call, probe, entries>>

\* async_step_bluetooth_confirm(user_input) with the form submitted.
StepBluetoothConfirm ==
    /\ flow.step = "bluetooth_confirm"
    /\ flow' = [flow EXCEPT !.step = "created"]
    /\ entries' = entries \cup {flow.discovery_info.address}
    /\ UNCHANGED <<is_on, call, probe>>

\* async_step_user(None): collect the discovered Neewer devices that are not
\* configured; without any, go to the manual form.
StepUser ==
    /\ flow.step = "none"
    /\ \E seen \in SUBSET Infos :
         LET found == {info.address : info \in
                         {i \in seen : ~Configured(i.address) /\ IsNeewerName(i.name)}}
         IN  flow' = [flow EXCEPT
                        !.discovered_devices = found,
                        !.step = IF found = {} THEN "manual" ELSE "user"]
    /\ UNCHANGED <<is_on, call, probe, entries>>

\* async_step_user(user_input): the form only offers the discovered devices.
StepUserPick ==
    /\ flow.step = "user"
    /\ \E address \in flow.discovered_devices : CreateOrAbort(address)
    /\ UNCHANGED <<is_on, call, probe>>

\* async_step_manual(user_input)
StepManual ==
    /\ flow.step = "manual"
    /\ \E input \in ManualInputs :
         LET address == Upper(Strip(input))
         IN  IF InvalidAddress(address)
             THEN /\ flow' = [flow EXCEPT !.errors = "invalid_address"]
                  /\ UNCHANGED entries
             ELSE CreateOrAbort(address)
    /\ UNCHANGED <<is_on, call, probe>>

\* The flow is over; the next one is a new NeewerGL1ProConfigFlow.
FlowClose ==
    /\ flow.step \in {"created", "aborted"}
    /\ flow' = IdleFlow
    /\ UNCHANGED <<is_on, call, probe, entries>>

NextFlow ==
    \/ StepBluetooth
    \/ StepBluetoothConfirm
    \/ StepUser
    \/ StepUserPick
    \/ StepManual
    \/ FlowClose

SpecFlow == Init /\ [][NextFlow]_vars

HexDigits == {"0","1","2","3","4","5","6","7","8","9",
              "A","B","C","D","E","F","a","b","c","d","e","f"}

\* Six colon-separated two-digit hex octets.
IsMacAddress(address) ==
    /\ Len(address) = 17
    /\ \A i \in 1..17 : IF i % 3 = 0 THEN address[i] = ":" ELSE address[i] \in HexDigits

\* C12 as stated: the address of a config entry is always six colon-separated
\* two-digit hex octets, whichever step of the flow created the entry.
C12_EntriesAreMacAddresses ==
    \A address \in entries : IsMacAddress(address)

\* The transport operations of one exchange in the order of the code.
Canonical == <<"connect", "start_notify", "write", "wait", "stop_notify", "disconnect">>

IsPrefix(a, b) == Len(a) <= Len(b) /\ a = SubSeq(b, 1, Len(a))

\* C13: the transport operations of an exchange occur in the order connect,
\* start_notify, write, wait, stop_notify, disconnect: the log is a prefix of
\* that order, or such a prefix cut short by a raise and closed by disconnect;
\* the write is made with the subscription active, the wait starts after the
\* write wrote the frame, stop_notify comes after the wait has ended, and
\* nothing follows disconnect.
C13_OperationOrder ==
    \A c \in Calls :
        LET ops == call[c].ops
            n == Len(ops)
        IN  /\ \/ IsPrefix(ops, Canonical)
               \/ /\ n >= 2
                  /\ ops[n] = "disconnect"
                  /\ IsPrefix(SubSeq(ops, 1, n - 1), Canonical)
            /\ call[c].pc = "write" => call[c].subscribed
            /\ call[c].pc = "wait" => call[c].written # <<>>
            /\ call[c].pc = "stop_notify" => (call[c].event \/ call[c].timedOut)
            /\ (Finished(c) /\ ConnectOK(c)) => ops[n] = "disconnect"
            /\ \A i \in 1..n : ops[i] = "disconnect" => i = n

\* A complete exchange: all six operations, in order.
C13_Witness ==
    \E c \in Calls :
        /\ call[c].pc = "done"
        /\ call[c].ops = Canonical

\* C14: an exchange attempts exactly one connection strategy: the cached
\* handle iff the lookup returned a device, directly by address iff it
\* returned none; when the cached attempt fails, the direct strategy is not
\* tried and the exchange ends without a transport and without a result.
C14_OneStrategy ==
    \A c \in Calls :
        /\ call[c].connects >= 1 =>
              /\ call[c].connects = 1
              /\ Len(call[c].attempts) = 1
              /\ call[c].attempts[1] = "cached" <=> call[c].lookup = "hit"
              /\ call[c].attempts[1] = "direct" <=> call[c].lookup = "miss"
        /\ (call[c].lookup = "hit" /\ \E k \in {"bleak", "other"} : RaisedAt(c, "connect", k)) =>
              /\ call[c].attempts = <<"cached">>
              /\ Finished(c)
              /\ ~call[c].connected
              /\ call[c].status = None
              /\ call[c].ops = <<"connect">>

\* The cached attempt raised BleakError and the call ended on the assumed state.
C14_Witness ==
    \E c \in Calls :
        /\ call[c].pc = "done"
        /\ call[c].lookup = "hit"
        /\ RaisedAt(c, "connect", "bleak")
        /\ call[c].attempts = <<"cached">>
        /\ call[c].status = None

\* C15: is_on is False initially; a step changes it only if it is the step in
\* which a call completes; while a call is in flight, whatever notification
\* is delivered, is_on is what it was when the call started.
C15_StateChangesOnlyOnCompletion ==
    /\ is_on = FALSE
    /\ [][is_on' # is_on =>
            \E c \in Calls : InProgress(c) /\ call'[c].pc = "done"]_vars
    /\ [](\A c \in Calls : InProgress(c) => is_on = call[c].before)

\* A call that started with the light on has received an OFF status and is
\* unsubscribing: is_on is still True.
C15_Witness ==
    \E c \in Calls :
        /\ call[c].pc = "stop_notify"
        /\ call[c].before
        /\ call[c].result = Some(FALSE)
        /\ is_on

\* ------------------------------------------------------ overlapping calls
\* Two calls on the same entity that the caller does not serialise.
Pair == {1, 2}

\* async_turn_on / async_turn_off is called whatever the other call is doing:
\* the entity holds no lock.
StartOverlap(c) == \E command \in Commands : Begin(c, command)

\* The device stays silent in these runs: no notification is delivered, so
\* every bounded wait ends by timeout and no call is confirmed.
NextOverlap ==
    \E c \in Pair :
        \/ StartOverlap(c)
        \/ Connect(c)
        \/ StartNotify(c)
        \/ Write(c)
        \/ Timeout(c)
        \/ StopNotify(c)
        \/ Disconnect(c)
        \/ Return(c)

SpecOverlap == Init /\ [][NextOverlap]_vars

\* C16: the entity has no mutual exclusion: a call can be started whatever the
\* other call is doing, and a started call can connect while the other call
\* holds its connection (the state of the witness).
C16_NoMutualExclusion ==
    \A c \in Pair :
        /\ call[c].pc = "idle" =>
               \A command \in Commands : ENABLED Begin(c, command)
        /\ call[c].pc = "connect" => ENABLED Connect(c)

\* Both calls are in flight and both hold an open connection.
C16_Witness ==
    /\ InProgress(1) /\ call[1].connected
    /\ InProgress(2) /\ call[2].connected
    /\ {call[1].seq, call[2].seq} = {1, 2}

\* C19 as stated: when a turn_on and a turn_off overlapped and neither was
\* confirmed, after both completed is_on is the assumed state of the command
\* that was issued last.
C19_LastIssuedWins ==
    \A c \in Pair : \A d \in Pair \ {c} :
        ( /\ call[c].pc = "done" /\ call[d].pc = "done"
          /\ call[c].seq = 1 /\ call[d].seq = 2
          /\ call[c].command # call[d].command
          /\ call[c].status = None /\ call[d].status = None )
        => is_on = Assumed(call[d].command)

\* C19 amended: when a turn_on and a turn_off overlapped and neither was
\* confirmed, after both completed is_on is the assumed state of the command
\* of the call that completed last, whichever was issued last.
C19_LastCompletedWins ==
    \A c \in Pair : \A d \in Pair \ {c} :
        ( /\ call[c].pc = "done" /\ call[d].pc = "done"
          /\ {call[c].seq, call[d].seq} = {1, 2}
          /\ call[c].endSeq = 1 /\ call[d].endSeq = 2
          /\ call[c].command # call[d].command
          /\ call[c].status = None /\ call[d].status = None )
        => is_on = Assumed(call[d].command)

\* The turn_on was issued first and completed last, after the turn_off timed
\* out: the light is recorded as on.
C19_Witness ==
    \E c \in Pair : \E d \in Pair \ {c} :
        /\ call[c].pc = "done" /\ call[d].pc = "done"
        /\ call[c].seq = 1 /\ call[d].seq = 2
        /\ call[c].endSeq = 2 /\ call[d].endSeq = 1
        /\ call[c].command = "on" /\ call[d].command = "off"
        /\ call[c].status = None /\ call[d].status = None
        /\ call[c].timedOut /\ call[d].timedOut
        /\ is_on

\* ------------------------------------------------------------- progress
\* Every awaited transport operation eventually returns or raises, and the
\* wait ends: by the event once it is set, by the timer otherwise.
Fairness ==
    \A c \in Calls :
        /\ WF_vars(Connect(c))
        /\ WF_vars(StartNotify(c))
        /\ WF_vars(Write(c))
        /\ WF_vars(WaitDone(c))
        /\ WF_vars(Timeout(c))
        /\ WF_vars(StopNotify(c))
        /\ WF_vars(Disconnect(c))

SpecLive == Init /\ [][Next]_vars /\ Fairness

\* Number of bounded waits the call has gone through.
Waits(c) == Cardinality({i \in 1..Len(call[c].ops) : call[c].ops[i] = "wait"})

\* C17: every call that was started eventually finishes (completes or
\* raises), and an exchange goes through at most one bounded wait, which a
\* timeout ends for good.
C17_EveryCallFinishes ==
    /\ \A c \in Calls : InProgress(c) ~> Finished(c)
    /\ [](\A c \in Calls :
            /\ Waits(c) <= 1
            /\ call[c].timedOut => (Waits(c) = 1 /\ call[c].pc # "wait"))

\* A call whose only wait ended by timeout has completed.
C17_Witness ==
    \E c \in Calls :
        /\ call[c].pc = "done"
        /\ call[c].timedOut
        /\ Waits(c) = 1
        /\ call[c].ops[Len(call[c].ops)] = "disconnect"

\* C18 as stated: when a step raised an error that is not a BleakError, the
\* exception leaves the call, is_on is what it was before the call, and
\* disconnect was invoked once if the connect had succeeded.
C18_OtherErrorEscapes ==
    \A c \in Calls :
        (Finished(c) /\ RaisedKind(c, "other")) =>
            /\ call[c].pc = "raised"
            /\ is_on = call[c].before
            /\ ConnectOK(c) => call[c].discCalls = 1

\* C18 amended: the same, unless the disconnect of the finally clause raised
\* a BleakError after it: that BleakError replaces the pending exception and
\* is caught, and the call completes normally.
C18_OtherErrorEscapesUnlessReplaced ==
    \A c \in Calls :
        (Finished(c) /\ RaisedKind(c, "other")) =>
            /\ ConnectOK(c) => call[c].discCalls = 1
            /\ IF RaisedAt(c, "disconnect", "bleak")
               THEN call[c].pc = "done"
               ELSE /\ call[c].pc = "raised"
                    /\ call[c].exc = "other"
                    /\ is_on = call[c].before

\* A turn_off on a light recorded as on: the write raised a non-BleakError,
\* disconnect ran once, the exception escaped and is_on is still True.
C18_Witness ==
    \E c \in Calls :
        /\ call[c].pc = "raised"
        /\ call[c].command = "off"
        /\ RaisedAt(c, "write", "other")
        /\ call[c].discCalls = 1
        /\ call[c].before
        /\ is_on
====
